---- MODULE Spec2Model ----
(***************************************************************************)
(* Model of streamlit_prod_dashboard.py: the normalizer                    *)
(* (process_production_data), the aggregator (create_summary_metrics,      *)
(* create_detailed_table, export_to_csv) and the script main() that        *)
(* Streamlit re-executes on every interaction.                             *)
(*                                                                         *)
(* Text is a sequence of one-character strings.  Numbers are integers in   *)
(* tenths (875 is 87.5), so that fractional cells, int() truncation and    *)
(* the '%' parse are all expressible.  A header name is a record           *)
(* [base, lpad, rpad]: the text `base` with lpad/rpad blanks around it.    *)
(***************************************************************************)
EXTENDS Integers, Sequences, FiniteSets, TLC

VARIABLES prod_upload, lookup_upload, raw_data, lookup_data, processed_data,
          team_box, agent_box, last, out

vars == <<prod_upload, lookup_upload, raw_data, lookup_data, processed_data,
          team_box, agent_box, last, out>>

None == [k |-> "none"]

-----------------------------------------------------------------------------
(* Text helpers: str.strip(), str.lower(), the `in` substring test.        *)

UpperCase == <<"A","B","C","D","E","F","G","H","I","J","K","L","M",
               "N","O","P","Q","R","S","T","U","V","W","X","Y","Z">>
LowerCase == <<"a","b","c","d","e","f","g","h","i","j","k","l","m",
               "n","o","p","q","r","s","t","u","v","w","x","y","z">>
Digits == <<"0","1","2","3","4","5","6","7","8","9">>

IsSpace(c) == c = " "

LowerChar(c) ==
  IF \E i \in 1..Len(UpperCase) : UpperCase[i] = c
  THEN LowerCase[CHOOSE i \in 1..Len(UpperCase) : UpperCase[i] = c]
  ELSE c

Lower(s) == [i \in 1..Len(s) |-> LowerChar(s[i])]

RECURSIVE LStrip(_)
LStrip(s) == IF s # <<>> /\ IsSpace(Head(s)) THEN LStrip(Tail(s)) ELSE s

RECURSIVE RStrip(_)
RStrip(s) ==
  IF s # <<>> /\ IsSpace(s[Len(s)]) THEN RStrip(SubSeq(s, 1, Len(s) - 1)) ELSE s

Strip(s) == RStrip(LStrip(s))

\* Python's `a in b` on str
Contains(a, b) ==
  \E i \in 0..(Len(b) - Len(a)) : SubSeq(b, i + 1, i + Len(a)) = a

\* str.replace('%', '')
RemovePercent(s) == SelectSeq(s, LAMBDA c : c # "%")

-----------------------------------------------------------------------------
(* Cells as pandas.read_csv delivers them.                                 *)
(*   nan    an empty field                                                 *)
(*   str    text (a column that is not wholly numeric)                     *)
(*   int    an integer of an all-integer column, h = 10 * value            *)
(*   float  a finite float, h in tenths                                    *)
(*   inf    +infinity (sign 1) or -infinity (sign -1) in h                 *)
(*   series the Series that row[col] is when the label is duplicated       *)

NaN == [k |-> "nan", s |-> <<>>, h |-> 0]
Txt(s) == [k |-> "str", s |-> s, h |-> 0]
IntCell(n) == [k |-> "int", s |-> <<>>, h |-> 10 * n]
FloatCell(h) == [k |-> "float", s |-> <<>>, h |-> h]
InfCell(sign) == [k |-> "inf", s |-> <<>>, h |-> sign]
SeriesCell == [k |-> "series", s |-> <<>>, h |-> 0]

\* pd.notna on a scalar
NotNa(c) == c.k # "nan"

IsDigit(c) == \E i \in 1..10 : Digits[i] = c
DigitVal(c) == (CHOOSE i \in 1..10 : Digits[i] = c) - 1

RECURSIVE NatText(_)
NatText(n) ==
  IF n < 10 THEN <<Digits[n + 1]>> ELSE NatText(n \div 10) \o <<Digits[(n % 10) + 1]>>

RECURSIVE NatValue(_)
NatValue(s) ==
  IF s = <<>> THEN 0 ELSE 10 * NatValue(SubSeq(s, 1, Len(s) - 1)) + DigitVal(s[Len(s)])

AllDigits(s) == s # <<>> /\ \A i \in 1..Len(s) : IsDigit(s[i])

Abs(n) == IF n < 0 THEN -n ELSE n

\* str(x) of a cell value: str(nan) is 'nan', str(50) is '50', str(87.5) is '87.5'
Str(c) ==
  CASE c.k = "nan" -> <<"n","a","n">>
    [] c.k = "str" -> c.s
    [] c.k = "int" ->
         (IF c.h < 0 THEN <<"-">> ELSE <<>>) \o NatText(Abs(c.h) \div 10)
    [] c.k = "float" ->
         (IF c.h < 0 THEN <<"-">> ELSE <<>>) \o NatText(Abs(c.h) \div 10)
           \o <<".">> \o NatText(Abs(c.h) % 10)
    [] c.k = "inf" ->
         (IF c.h < 0 THEN <<"-">> ELSE <<>>) \o <<"i","n","f">>
    [] OTHER -> <<"D","i","s","p"," "," ","x">>   \* repr of a Series: never numeric

\* The unsigned part of a decimal literal with at most one fractional digit
\* (the widest the tenths representation holds): [ok, h].
ParseUnsigned(s) ==
  LET dot == IF \E i \in 1..Len(s) : s[i] = "."
             THEN CHOOSE i \in 1..Len(s) : s[i] = "." ELSE 0
      ip == IF dot = 0 THEN s ELSE SubSeq(s, 1, dot - 1)
      fp == IF dot = 0 THEN <<>> ELSE SubSeq(s, dot + 1, Len(s))
  IN IF AllDigits(ip) /\ (fp = <<>> \/ (Len(fp) = 1 /\ IsDigit(fp[1])))
     THEN [ok |-> TRUE, h |-> 10 * NatValue(ip) + (IF fp = <<>> THEN 0 ELSE DigitVal(fp[1]))]
     ELSE [ok |-> FALSE, h |-> 0]

\* pd.to_numeric(text, errors='coerce') on a str scalar
ParseText(s) ==
  LET neg == s # <<>> /\ s[1] = "-"
      body == IF s # <<>> /\ (s[1] = "-" \/ s[1] = "+") THEN Tail(s) ELSE s
      u == ParseUnsigned(body)
  IN IF Lower(body) = <<"i","n","f">> THEN InfCell(IF neg THEN -1 ELSE 1)
     ELSE IF u.ok THEN FloatCell(IF neg THEN -u.h ELSE u.h)
     ELSE NaN

\* pd.to_numeric(value, errors='coerce'): a number is returned as it is, text is
\* parsed, a Series gives a Series.
ToNumeric(c) ==
  CASE c.k = "str" -> ParseText(c.s)
    [] OTHER -> c

\* A variant that rounds toward minus infinity
IntOfFloor(h) == IF h >= 0 THEN h \div 10 ELSE -((-h + 9) \div 10)

\* int(val) of a finite number: truncation toward zero
IntOf(h) == IF h >= 0 THEN h \div 10 ELSE -((-h) \div 10)

-----------------------------------------------------------------------------
(* Tables: [header, rows]; a row is a tuple of cells aligned with header.   *)

Col(b) == [base |-> b, lpad |-> 0, rpad |-> 0]
ColR(b) == [base |-> b, lpad |-> 0, rpad |-> 1]
ColL(b) == [base |-> b, lpad |-> 1, rpad |-> 0]

\* Index.str.strip() on one label
StripCol(c) == [base |-> c.base, lpad |-> 0, rpad |-> 0]

clean_column_names(df) ==
  [df EXCEPT !.header = [i \in 1..Len(df.header) |-> StripCol(df.header[i])]]

\* `col in row`
Has(header, col) == \E i \in 1..Len(header) : header[i] = col

\* row[col] for a label that is present: the scalar, or a Series when the label
\* occurs more than once
Get(header, cells, col) ==
  LET idx == {i \in 1..Len(header) : header[i] = col}
  IN IF Cardinality(idx) = 1 THEN cells[CHOOSE i \in idx : TRUE] ELSE SeriesCell

\* row.get(col, default)
GetOr(header, cells, col, default) ==
  IF Has(header, col) THEN Get(header, cells, col) ELSE default

\* DataFrame.empty: no rows or no columns
IsEmptyDf(df) == Len(df.rows) = 0 \/ Len(df.header) = 0

NameCols == <<Col("Disp"), Col("Employee name"), Col("Agent"), Col("Name")>>
ContCols == <<Col("Cont Procsd"), ColR("Cont Procsd"), Col("Contacts Processed"),
              Col("Contact Processed")>>
TargetCols == <<Col("Cont Proc - Target"), Col("Contact Processed Target"), Col("Target")>>
EffCols == <<Col("Eff   Cont"), Col("Eff Cont"), ColR("Eff   Cont"),
             Col("Effective Contacts"), Col("Effective Contacts Achieved")>>
ProdCols == <<Col("Cont Proc - Prod%"), Col("Productivity Achieved %"), Col("Productivity")>>
NetCols == <<Col("Net Cont"), Col("Net Contacts")>>

UK == <<"U","K">>

Raise == [tag |-> "raise", v |-> 0]
Ok(v) == [tag |-> "ok", v |-> v]

\* Line 83 on the value of a present column: raises on a Series (bool() of a
\* Series), gives the stripped text when not NaN and not blank, <<>> otherwise
NameOf(c) ==
  IF c.k = "series" THEN Raise
  ELSE IF NotNa(c) /\ Strip(Str(c)) # <<>> THEN Ok(Strip(Str(c)))
  ELSE Ok(<<>>)

\* Lines 81-85: the first candidate present, not NaN and not blank gives the
\* stripped name; v = <<>> when there is none
RECURSIVE ScanName(_, _, _)
ScanName(header, cells, cols) ==
  IF cols = <<>> THEN Ok(<<>>)
  ELSE IF Has(header, Head(cols)) /\ NameOf(Get(header, cells, Head(cols))) # Ok(<<>>)
  THEN NameOf(Get(header, cells, Head(cols)))
  ELSE ScanName(header, cells, Tail(cols))

Pass == [tag |-> "pass", v |-> 0]

\* Lines 105-108 on one value: `if pd.notna(val)` raises on a Series, int(val)
\* raises on an infinity; Pass when val is NaN
CountOf(val) ==
  IF val.k = "series" THEN Raise
  ELSE IF NotNa(val) THEN (IF val.k = "inf" THEN Raise ELSE Ok(IntOf(val.h)))
  ELSE Pass

\* Lines 102-108 (and 110-116, 118-124, 136-142): the first candidate present whose
\* value pd.to_numeric turns into a non-NaN number gives int(val); 0 when none
RECURSIVE ScanCount(_, _, _)
ScanCount(header, cells, cols) ==
  IF cols = <<>> THEN Ok(0)
  ELSE IF Has(header, Head(cols))
          /\ CountOf(ToNumeric(Get(header, cells, Head(cols)))) # Pass
  THEN CountOf(ToNumeric(Get(header, cells, Head(cols))))
  ELSE ScanCount(header, cells, Tail(cols))

\* Lines 130-131
ProdValue(c) == ParseText(Strip(RemovePercent(Str(c))))

\* Lines 127-134: str(value) without '%', stripped, parsed; float(val) of the first
\* non-NaN result (an infinity included); 0 when none
RECURSIVE ScanProd(_, _, _)
ScanProd(header, cells, cols) ==
  IF cols = <<>> THEN Ok(FloatCell(0))
  ELSE IF Has(header, Head(cols)) /\ NotNa(ProdValue(Get(header, cells, Head(cols))))
  THEN Ok(ProdValue(Get(header, cells, Head(cols))))
  ELSE ScanProd(header, cells, Tail(cols))

\* Line 97: substring match in either direction, case-insensitive
NameMatch(agent_name, lookup_name) ==
  \/ Contains(Lower(agent_name), Lower(lookup_name))
  \/ Contains(Lower(lookup_name), Lower(agent_name))

\* Line 96
LookupName(lk, i) ==
  Strip(Str(GetOr(lk.header, lk.rows[i], Col("Employee name"), Txt(<<>>))))

\* Lines 95-99: the lookup rows are scanned from i on; the first match gives its
\* Team value, whatever it is ('UK' only when Team is no column)
RECURSIVE ScanLookup(_, _, _)
ScanLookup(agent_name, lookup_df, i) ==
  IF i > Len(lookup_df.rows) THEN Txt(UK)
  ELSE IF NameMatch(agent_name, LookupName(lookup_df, i))
  THEN GetOr(lookup_df.header, lookup_df.rows[i], Col("Team"), Txt(UK))
  ELSE ScanLookup(agent_name, lookup_df, i + 1)

\* Lines 91-99: 'UK' unless a lookup table that is not empty is given
FindTeam(agent_name, lookup_df) ==
  IF lookup_df = None THEN Txt(UK)
  ELSE IF IsEmptyDf(lookup_df) THEN Txt(UK)
  ELSE ScanLookup(agent_name, lookup_df, 1)

\* A variant that keeps the Deficit the file supplies
DeficitOfSupplied(header, cells, target, cont_processed) ==
  IF Has(header, Col("Deficit")) /\ Get(header, cells, Col("Deficit")).k = "int"
  THEN IntOf(Get(header, cells, Col("Deficit")).h)
  ELSE target - cont_processed

\* Line 153
DeficitOf(header, cells, target, cont_processed) == target - cont_processed

\* Lines 87-88 and 148-160: skip (no agent name), raise, or the record
BuildRow(header, cells, lookup_df, name, cont, target, eff, prod, net) ==
  IF name.tag = "raise" THEN [tag |-> "raise"]
  ELSE IF name.v = <<>> THEN [tag |-> "skip"]
  ELSE IF "raise" \in {cont.tag, target.tag, eff.tag, net.tag} THEN [tag |-> "raise"]
  ELSE [tag |-> "rec",
        rec |-> [Agent |-> name.v,
                 Team |-> FindTeam(name.v, lookup_df),
                 Contacts_Processed |-> cont.v,
                 Target |-> target.v,
                 Deficit |-> DeficitOf(header, cells, target.v, cont.v),
                 Productivity |-> prod.v,
                 Effective_Contacts |-> eff.v,
                 Net_Contacts |-> net.v,
                 Prod_Hours |-> GetOr(header, cells, Col("Prod Hours"),
                                      Txt(<<"0",":","0","0",":","0","0">>)),
                 Level |-> GetOr(header, cells, Col("Level"), Txt(<<"L","2">>))]]

\* Lines 79-160, one row
ProcessRow(header, cells, lookup_df) ==
  BuildRow(header, cells, lookup_df,
           ScanName(header, cells, NameCols),
           ScanCount(header, cells, ContCols),
           ScanCount(header, cells, TargetCols),
           ScanCount(header, cells, EffCols),
           ScanProd(header, cells, ProdCols),
           ScanCount(header, cells, NetCols))

\* The columns of the frame built at line 162 from the dicts of lines 148-160
RecordColumns == <<"Agent", "Team", "Contacts_Processed", "Target", "Deficit",
                   "Productivity", "Effective_Contacts", "Net_Contacts",
                   "Prod_Hours", "Level", "Date">>

EmptyFrame == [columns |-> <<>>, rows |-> <<>>]

RECURSIVE Emitted(_, _)
Emitted(results, i) ==
  IF i > Len(results) THEN <<>>
  ELSE IF results[i].tag = "rec" THEN <<results[i].rec>> \o Emitted(results, i + 1)
  ELSE Emitted(results, i + 1)

\* Lines 162-169: the frame of the records, or the empty frame of the except branch
Collect(raw, lk, results) ==
  IF \E i \in 1..Len(results) : results[i].tag = "raise"
  THEN [df |-> EmptyFrame, error |-> TRUE, raw |-> raw, lookup |-> lk]
  ELSE [df |-> [columns |-> IF \E i \in 1..Len(results) : results[i].tag = "rec"
                            THEN RecordColumns ELSE <<>>,
                rows |-> Emitted(results, 1)],
        error |-> FALSE, raw |-> raw, lookup |-> lk]

\* Lines 77-164 on the cleaned frames
Normalize(raw, lk) ==
  Collect(raw, lk, [i \in 1..Len(raw.rows) |-> ProcessRow(raw.header, raw.rows[i], lk)])

\* Lines 64-169.  df is the returned frame, error tells st.error from st.success,
\* raw and lookup are the caller's frames after clean_column_names (changed in place).
process_production_data(raw_df, lookup_df) ==
  Normalize(clean_column_names(raw_df),
            IF lookup_df = None THEN None ELSE clean_column_names(lookup_df))

-----------------------------------------------------------------------------
(* Aggregator and presentation helpers.                                    *)

RECURSIVE SumOf(_, _)
SumOf(rows, f) ==
  IF rows = <<>> THEN 0
  ELSE (CASE f = "Contacts_Processed" -> Head(rows).Contacts_Processed
          [] f = "Target" -> Head(rows).Target
          [] OTHER -> Head(rows).Deficit) + SumOf(Tail(rows), f)

\* productivity >= 100, productivity >= 80 on a float in tenths or an infinity
AtLeast(p, n) == IF p.k = "inf" THEN p.h > 0 ELSE p.h >= 10 * n

\* A variant whose label is 'Surplus' only below zero
create_summary_metrics_strict(rows) ==
  [total_contacts |-> SumOf(rows, "Contacts_Processed"),
   total_target |-> SumOf(rows, "Target"),
   total_deficit |-> SumOf(rows, "Deficit"),
   status |-> IF SumOf(rows, "Deficit") < 0 THEN "Surplus" ELSE "Deficit",
   agents |-> Len(rows),
   avg_defined |-> Len(rows) > 0,
   achievers |-> Cardinality({i \in 1..Len(rows) : AtLeast(rows[i].Productivity, 100)})]

\* Lines 180-218.  mean() of no values is NaN: avg_defined is FALSE then.
create_summary_metrics(rows) ==
  LET total_deficit == SumOf(rows, "Deficit")
      achievers == Cardinality({i \in 1..Len(rows) : AtLeast(rows[i].Productivity, 100)})
  IN [total_contacts |-> SumOf(rows, "Contacts_Processed"),
      total_target |-> SumOf(rows, "Target"),
      total_deficit |-> total_deficit,
      status |-> IF total_deficit <= 0 THEN "Surplus" ELSE "Deficit",
      agents |-> Len(rows),
      avg_defined |-> Len(rows) > 0,
      achievers |-> achievers]

\* Lines 307-309
StatusLabel(p) ==
  IF AtLeast(p, 100) THEN "Achieved" ELSE IF AtLeast(p, 80) THEN "Close" ELSE "Below"

\* Lines 304-322: the frame passed in gets a Status column (in place); the returned
\* display frame is a renamed selection of its columns
create_detailed_table(frame) ==
  [columns |-> frame.columns \o <<"Status">>,
   status |-> [i \in 1..Len(frame.rows) |-> StatusLabel(frame.rows[i].Productivity)],
   rows |-> frame.rows]

\* Lines 324-329: the frame as it is when serialized, header row and records
export_to_csv(frame) == [columns |-> frame.columns, rows |-> frame.rows]

\* Lines 43-57: a file is [ok, table]; an undecodable one gives None
parse_csv_file(uploaded_file) ==
  IF uploaded_file.ok THEN uploaded_file.table ELSE None

-----------------------------------------------------------------------------
(* main(), lines 332-502, one execution of the script.                      *)

ALL == Txt(<<"A","L","L">>)

NoBox == [opts |-> {}, val |-> ALL]

\* df['Team'].unique() / df[...]['Agent'].unique(), as sets of values
TeamValues(rows) == {rows[i].Team : i \in 1..Len(rows)}
AgentValues(rows) == {Txt(rows[i].Agent) : i \in 1..Len(rows)}

\* sorted() of a list holding a float NaN beside str values raises TypeError
SortRaises(values) ==
  Cardinality(values) > 1 /\ \E v \in values : v.k = "nan" /\ \E w \in values : w.k = "str"

\* column == value: never true of NaN
CellEq(a, b) == a.k # "nan" /\ b.k # "nan" /\ a = b

\* st.selectbox: the stored value while the options are those it was shown with,
\* the first option otherwise
BoxValue(box, opts) == IF box.opts = opts THEN box.val ELSE ALL

NoOut == [view |-> "welcome", error |-> FALSE, metrics |-> None, metrics_rows |-> <<>>,
          export |-> None, detailed |-> None]

State(res, tbox, abox, o) ==
  [raw |-> res.raw, lookup |-> res.lookup, processed |-> res.df,
   tbox |-> tbox, abox |-> abox, out |-> o]

\* Lines 408-477 on the filtered frame: export (only of a non-empty frame), then
\* the metrics and charts, then the detailed table
Render(res, tbox, abox, filtered_df) ==
  State(res, tbox, abox,
        [view |-> "dashboard",
         error |-> FALSE,
         export |-> IF Len(filtered_df.rows) > 0 THEN export_to_csv(filtered_df) ELSE None,
         metrics |-> create_summary_metrics(filtered_df.rows),
         metrics_rows |-> filtered_df.rows,
         detailed |-> create_detailed_table(filtered_df)])

\* Lines 409-413
FilterAgent(rows, selected_agent) ==
  IF selected_agent # ALL
  THEN SelectSeq(rows, LAMBDA r : Txt(r.Agent) = selected_agent)
  ELSE rows

FilterTeam(rows, selected_team) ==
  IF selected_team # ALL
  THEN SelectSeq(rows, LAMBDA r : CellEq(r.Team, selected_team))
  ELSE rows

\* Lines 402-413: the agent options are those of the selected team
WithAgent(res, tbox, agents, selected_agent) ==
  Render(res, tbox, [opts |-> agents, val |-> selected_agent],
         [columns |-> res.df.columns,
          rows |-> FilterAgent(FilterTeam(res.df.rows, tbox.val), selected_agent)])

WithAgents(res, tbox, abox, agents) == WithAgent(res, tbox, agents, BoxValue(abox, agents))

WithTeam(res, tbox, abox) ==
  WithAgents(res, tbox, abox, {ALL} \cup AgentValues(FilterTeam(res.df.rows, tbox.val)))

\* Lines 398-399
WithTeams(res, tbox, abox, teams) ==
  WithTeam(res, [opts |-> teams, val |-> BoxValue(tbox, teams)], abox)

\* Lines 390-485: the dashboard when processed_data holds records, the welcome
\* screen otherwise; sorted() at line 398 may raise
View(res, tbox, abox) ==
  IF res.df = None \/ res.df.rows = <<>>
  THEN State(res, NoBox, NoBox, [NoOut EXCEPT !.error = res.error])
  ELSE IF SortRaises(TeamValues(res.df.rows))
  THEN State(res, NoBox, NoBox, [NoOut EXCEPT !.view = "crash"])
  ELSE WithTeams(res, tbox, abox, {ALL} \cup TeamValues(res.df.rows))

\* Lines 376-385
Pressed(raw1, lookup1, processed0, button, tbox, abox) ==
  View(IF raw1 # None /\ button
       THEN process_production_data(raw1, lookup1)
       ELSE [df |-> processed0, error |-> FALSE, raw |-> raw1, lookup |-> lookup1],
       tbox, abox)

\* Lines 349-352 and 367-371: a parsed upload replaces the stored frame
Stored(upload, stored) ==
  IF upload = None THEN stored
  ELSE IF parse_csv_file(upload) = None THEN stored
  ELSE parse_csv_file(upload)

\* The script's effect.  button: Process pressed in this run.
Main(pu, lu, raw0, lookup0, processed0, button, tbox, abox) ==
  Pressed(Stored(pu, raw0), Stored(lu, lookup0), processed0, button, tbox, abox)

\* The session state and widgets after a run that ended in m
Assign(m, pu, lu, event) ==
  /\ prod_upload' = pu
  /\ lookup_upload' = lu
  /\ raw_data' = m.raw
  /\ lookup_data' = m.lookup
  /\ processed_data' = m.processed
  /\ team_box' = m.tbox
  /\ agent_box' = m.abox
  /\ out' = m.out
  /\ last' = event

Rerun(pu, lu, button, tbox, abox, event) ==
  Assign(Main(pu, lu, raw_data, lookup_data, processed_data, button, tbox, abox),
         pu, lu, event)

-----------------------------------------------------------------------------
(* Inputs.  A schema is a header (as written in the file, before stripping) *)
(* with the cell values each column draws from.                            *)

MaxRows == 2
MaxLookupRows == 2
MaxAgents == 1

Schema(header, doms) == [header |-> header, doms |-> doms]

RowsOf(sc) ==
  {r \in [1..Len(sc.header) -> UNION {sc.doms[i] : i \in 1..Len(sc.header)}] :
     \A i \in 1..Len(sc.header) : r[i] \in sc.doms[i]}

SeqsUpTo(S, lo, hi) == UNION {[1..n -> S] : n \in lo..hi}

TablesOf(sc, lo, hi) == {[header |-> sc.header, rows |-> rs] : rs \in SeqsUpTo(RowsOf(sc), lo, hi)}

NormSchemas ==
  { \* a padded header, text and negative fractional counts, an infinite target
    Schema(<<Col("Disp"), ColR("Cont Procsd"), Col("Cont Proc - Target")>>,
           <<{Txt(<<"A">>), Txt(<<" ", " ">>)},
             {IntCell(50), Txt(<<"a","b","c">>), FloatCell(-35)},
             {IntCell(40), InfCell(1)}>>),
    \* two name candidates and two spellings of contacts-processed
    Schema(<<Col("Disp"), Col("Name"), Col("Cont Procsd"), Col("Contacts Processed")>>,
           <<{NaN, Txt(<<" ", "A", " ">>)},
             {Txt(<<"b">>), NaN},
             {IntCell(5), Txt(<<"x">>)},
             {FloatCell(25)}>>),
    \* two spellings that differ only by a trailing blank
    Schema(<<Col("Agent"), Col("Cont Procsd"), ColR("Cont Procsd")>>,
           <<{Txt(<<"A">>), NaN}, {IntCell(50)}, {IntCell(40), NaN}>>),
    \* productivity: percent text, garbage, infinities
    Schema(<<Col("Name"), Col("Cont Proc - Prod%"), Col("Productivity")>>,
           <<{Txt(<<"A">>)},
             {Txt(<<"8","7",".","5","%">>), Txt(<<"a","b","c">>), NaN, InfCell(1)},
             {Txt(<<"a","b","c">>), IntCell(90), Txt(<<"i","n","f">>)}>>),
    \* a file that carries its own Deficit column
    Schema(<<Col("Disp"), Col("Target"), Col("Deficit")>>,
           <<{Txt(<<"A">>), Txt(<<"b">>)},
             {IntCell(40), IntCell(-3)},
             {IntCell(99), NaN}>>),
    \* effective and net contacts, a padded Level header
    Schema(<<Col("Employee name"), Col("Eff Cont"), Col("Net Contacts"), ColL("Level")>>,
           <<{Txt(<<"A">>)},
             {FloatCell(-5), IntCell(3), Txt(<<"1",".","5">>)},
             {IntCell(-2), InfCell(-1)},
             {Txt(<<"L","1">>)}>>),
    \* the name label twice once stripped
    Schema(<<ColR("Disp"), Col("Disp"), Col("Name")>>,
           <<{Txt(<<"A">>)}, {NaN, Txt(<<"b">>)}, {Txt(<<"c">>)}>>) }

\* The three-row end-to-end input
E2ETable ==
  [header |-> <<Col("Disp"), ColR("Cont Procsd"), Col("Cont Proc - Target"),
                Col("Employee name"), Col("Contacts Processed"),
                Col("Contact Processed Target")>>,
   rows |-> << <<Txt(<<"A">>), FloatCell(500), FloatCell(400), NaN, NaN, NaN>>,
               <<NaN, NaN, NaN, Txt(<<"B">>), FloatCell(300), FloatCell(400)>>,
               <<NaN, NaN, NaN, NaN, NaN, NaN>> >>]

NormTables == {E2ETable} \cup UNION {TablesOf(sc, 1, MaxRows) : sc \in NormSchemas}

TeamTables ==
  TablesOf(Schema(<<Col("Disp")>>,
                  <<{Txt(<<"a","l">>), Txt(<<"N","a","n">>), Txt(<<"B","o","b">>)}>>),
           1, MaxAgents)

APAC == <<"A","P","A","C">>
EU == <<"E","U">>

LookupSchemas ==
  { Schema(<<Col("Employee name"), Col("Team")>>,
           <<{Txt(<<"A","l","i">>), NaN},
             {Txt(APAC), Txt(EU), NaN}>>),
    Schema(<<ColR("Employee name"), ColL("Team")>>,
           <<{Txt(<<" ","b","o"," ">>)}, {Txt(EU)}>>),
    Schema(<<Col("Team")>>, <<{Txt(APAC), Txt(EU)}>>),
    Schema(<<Col("Employee name")>>, <<{Txt(<<"b","o","b">>)}>>) }

LookupTables == UNION {TablesOf(sc, 0, MaxLookupRows) : sc \in LookupSchemas}

File(t) == [ok |-> TRUE, table |-> t]
BadFile == [ok |-> FALSE, table |-> None]

\* The files of the interactive specification
UiTable(rows) == [header |-> <<Col("Disp"), Col("Target"), Col("Productivity")>>, rows |-> rows]
UiLookup(rows) == [header |-> <<Col("Employee name"), Col("Team")>>, rows |-> rows]

UiProdFiles ==
  { File(UiTable(<< <<Txt(<<"A","l">>), IntCell(40), IntCell(100)>>,
                    <<Txt(<<"B","o">>), IntCell(10), IntCell(85)>> >>)),
    File(UiTable(<< <<Txt(<<"A","l">>), IntCell(5), IntCell(50)>> >>)),
    File(UiTable(<< <<NaN, IntCell(5), NaN>> >>)),
    File(UiTable(<< <<Txt(<<"B","o">>), InfCell(1), NaN>> >>)) }

UiLookupFiles ==
  { File(UiLookup(<< <<Txt(<<"a","l">>), Txt(APAC)>>, <<Txt(<<"b","o">>), Txt(EU)>> >>)),
    File(UiLookup(<< <<Txt(<<"a","l">>), NaN>>, <<Txt(<<"b","o">>), NaN>> >>)),
    File(UiLookup(<< <<Txt(<<"a","l">>), NaN>>, <<Txt(<<"b","o">>), Txt(EU)>> >>)) }

-----------------------------------------------------------------------------
(* The state machine: one action per interaction, each followed by the      *)
(* script's re-execution.                                                   *)

\* Lines 36-41 and a first run with nothing uploaded
Init ==
  /\ prod_upload = None
  /\ lookup_upload = None
  /\ raw_data = None
  /\ lookup_data = None
  /\ processed_data = None
  /\ team_box = NoBox
  /\ agent_box = NoBox
  /\ out = NoOut
  /\ last = "start"

\* The state once the files f and l (None: no lookup file) have been uploaded
Started(m, f, l) ==
  /\ prod_upload = f
  /\ lookup_upload = l
  /\ raw_data = m.raw
  /\ lookup_data = m.lookup
  /\ processed_data = m.processed
  /\ team_box = m.tbox
  /\ agent_box = m.abox
  /\ out = m.out
  /\ last = "upload"

Uploaded(f, l) == Started(Main(f, l, None, None, None, FALSE, NoBox, NoBox), f, l)

InitPass ==
  \/ \E t \in NormTables : Uploaded(File(t), None)
  \/ \E t \in TeamTables : \E l \in LookupTables : Uploaded(File(t), File(l))

UploadProd ==
  \E f \in UiProdFiles : Rerun(f, lookup_upload, FALSE, team_box, agent_box, "upload")

UploadLookup ==
  \E f \in UiLookupFiles : Rerun(prod_upload, f, FALSE, team_box, agent_box, "upload")

FailedUploadProd == Rerun(BadFile, lookup_upload, FALSE, team_box, agent_box, "failed_upload")

FailedUploadLookup == Rerun(prod_upload, BadFile, FALSE, team_box, agent_box, "failed_upload")

\* Lines 376-385: the button exists only while raw_data is set
Process ==
  /\ raw_data # None
  /\ Rerun(prod_upload, lookup_upload, TRUE, team_box, agent_box, "process")

\* Lines 398-399
SelectTeam ==
  /\ out.view = "dashboard"
  /\ \E t \in team_box.opts :
       /\ t # team_box.val
       /\ Rerun(prod_upload, lookup_upload, FALSE, [team_box EXCEPT !.val = t], agent_box,
                "select_team")

\* Lines 402-406
SelectAgent ==
  /\ out.view = "dashboard"
  /\ \E a \in agent_box.opts :
       /\ a # agent_box.val
       /\ Rerun(prod_upload, lookup_upload, FALSE, team_box, [agent_box EXCEPT !.val = a],
                "select_agent")

Next ==
  \/ UploadProd
  \/ UploadLookup
  \/ FailedUploadProd
  \/ FailedUploadLookup
  \/ Process
  \/ SelectTeam
  \/ SelectAgent

Spec == Init /\ [][Next]_vars

NextPass == Process \/ SelectTeam \/ SelectAgent

SpecPass == InitPass /\ [][NextPass]_vars

-----------------------------------------------------------------------------
(* The properties.  Under SpecPass the uploaded files never change, so once *)
(* processed_data is set it is the result of the pass over them.            *)

Done == processed_data # None
Input == prod_upload.table
LookupInput == IF lookup_upload = None THEN None ELSE lookup_upload.table

Range(s) == {s[i] : i \in 1..Len(s)}

IsBlank(c) == c.k = "str" /\ \A i \in 1..Len(c.s) : c.s[i] = " "

\* Row i of table t holds a non-null, non-blank value in a name-candidate column
HasAgent(t, i) ==
  \E p \in 1..Len(t.header) :
    /\ StripCol(t.header[p]) \in Range(NameCols)
    /\ t.rows[i][p].k # "nan"
    /\ ~IsBlank(t.rows[i][p])

\* The rows with an agent name, in input order
Named(t) == SelectSeq([i \in 1..Len(t.rows) |-> i], LAMBDA i : HasAgent(t, i))

\* One record per named row, in order
OnePerNamedRow == Len(processed_data.rows) = Len(Named(Input))

\* What a cell of a field of the given kind coerces to: counts by pd.to_numeric,
\* productivity by the '%'-stripping parse
Coerced(c, kind) == IF kind = "prod" THEN ProdValue(c) ELSE ToNumeric(c)

\* The value a field takes from row i according to the column-fallback rule: the
\* candidates in list order, each looked up by its trimmed name, the first
\* position whose value coerces to a number (a finite one when finite_only)
Qualifying(t, i, cols, kind, finite_only) ==
  {x \in (1..Len(cols)) \X (1..Len(t.header)) :
     /\ StripCol(t.header[x[2]]) = StripCol(cols[x[1]])
     /\ Coerced(t.rows[i][x[2]], kind).k \in {"int", "float", "inf"}
     /\ (finite_only => Coerced(t.rows[i][x[2]], kind).k # "inf")}

First(q) == CHOOSE x \in q : \A y \in q : x[1] < y[1] \/ (x[1] = y[1] /\ x[2] <= y[2])

Winner(t, i, cols, kind, finite_only) ==
  IF Qualifying(t, i, cols, kind, finite_only) = {} THEN FloatCell(0)
  ELSE Coerced(t.rows[i][First(Qualifying(t, i, cols, kind, finite_only))[2]], kind)

\* The integer part of h tenths, defined by its bounds
Truncated(h) ==
  CHOOSE n \in -Abs(h)..Abs(h) :
    /\ 10 * Abs(n) <= Abs(h)
    /\ Abs(h) < 10 * Abs(n) + 10
    /\ (n < 0 => h < 0)
    /\ (n > 0 => h > 0)

CountIs(value, w) == w.k # "inf" /\ value = Truncated(w.h)
ProdIs(value, w) == value.k = w.k /\ value.h = w.h

\* Every numeric field of record j is what the fallback rule gives for its row
FieldsFollowRule(j, finite_only) ==
  LET r == processed_data.rows[j]
      i == Named(Input)[j]
  IN /\ CountIs(r.Contacts_Processed, Winner(Input, i, ContCols, "count", finite_only))
     /\ CountIs(r.Target, Winner(Input, i, TargetCols, "count", finite_only))
     /\ CountIs(r.Effective_Contacts, Winner(Input, i, EffCols, "count", finite_only))
     /\ CountIs(r.Net_Contacts, Winner(Input, i, NetCols, "count", finite_only))
     /\ ProdIs(r.Productivity, Winner(Input, i, ProdCols, "prod", finite_only))

\* C1: process_production_data emits exactly one record for each input row that has
\* a non-null, non-blank value in a name-candidate column and none for the other
\* rows, in input order, each with a non-empty Agent taken from its row.
ClaimC1 ==
  Done =>
    /\ OnePerNamedRow
    /\ \A j \in 1..Len(processed_data.rows) :
         /\ processed_data.rows[j].Agent # <<>>
         /\ \E p \in 1..Len(Input.header) :
              /\ StripCol(Input.header[p]) \in Range(NameCols)
              /\ Input.rows[Named(Input)[j]][p].k = "str"
              /\ processed_data.rows[j].Agent = Strip(Input.rows[Named(Input)[j]][p].s)

\* C2: every emitted record has Deficit = Target - Contacts_Processed, also when
\* the input carries a Deficit column of its own.
ClaimC2 ==
  Done => \A j \in 1..Len(processed_data.rows) :
            processed_data.rows[j].Deficit
              = processed_data.rows[j].Target - processed_data.rows[j].Contacts_Processed

\* C2 witness: a pass over a file with its own Deficit column (99) whose record has
\* the computed Deficit -3.
WitnessC2 ==
  /\ Done
  /\ \E p \in 1..Len(Input.header) :
       Input.header[p] = Col("Deficit") /\ Input.rows[1][p] = IntCell(99)
  /\ Len(processed_data.rows) > 0
  /\ processed_data.rows[1].Deficit = -3

\* C3: for every row and each numeric field the normalized value is that of the first
\* candidate column (by trimmed header name) whose value coerces to a number, a later
\* candidate being used only when the earlier ones fail, 0 when none qualifies.
ClaimC3 ==
  Done =>
    /\ OnePerNamedRow
    /\ \A j \in 1..Len(processed_data.rows) : FieldsFollowRule(j, FALSE)

\* Team according to the claim: 'UK' without a lookup table or with an empty one;
\* otherwise the Team of the first lookup row whose Employee name (trimmed; the
\* empty text when the table has no such column) matches the agent in either
\* direction, ignoring case; 'UK' when no row matches.
ClaimedName(lk, i) ==
  IF \E p \in 1..Len(lk.header) : StripCol(lk.header[p]) = Col("Employee name")
  THEN lk.rows[i][CHOOSE p \in 1..Len(lk.header) :
                    StripCol(lk.header[p]) = Col("Employee name")]
  ELSE Txt(<<>>)

ClaimedMatch(agent, lk, i) ==
  /\ ClaimedName(lk, i).k = "str"
  /\ \/ Contains(Lower(agent), Lower(Strip(ClaimedName(lk, i).s)))
     \/ Contains(Lower(Strip(ClaimedName(lk, i).s)), Lower(agent))

ClaimedTeam(agent, lk) ==
  IF lk = None THEN Txt(UK)
  ELSE IF Len(lk.rows) = 0 THEN Txt(UK)
  ELSE IF \A i \in 1..Len(lk.rows) : ~ClaimedMatch(agent, lk, i) THEN Txt(UK)
  ELSE LET i == CHOOSE m \in 1..Len(lk.rows) :
                  /\ ClaimedMatch(agent, lk, m)
                  /\ \A n \in 1..(m - 1) : ~ClaimedMatch(agent, lk, n)
       IN IF \E p \in 1..Len(lk.header) : StripCol(lk.header[p]) = Col("Team")
          THEN lk.rows[i][CHOOSE p \in 1..Len(lk.header) : StripCol(lk.header[p]) = Col("Team")]
          ELSE Txt(UK)

\* No lookup row lacks its Team value (what happens then is C5's subject)
TeamsPresent(lk) ==
  lk # None => \A i \in 1..Len(lk.rows) : \A p \in 1..Len(lk.header) :
                 StripCol(lk.header[p]) = Col("Team") => lk.rows[i][p].k = "str"

\* C4: Team is 'UK' without a (non-empty) lookup table; otherwise it comes from the
\* first lookup row whose Employee name matches the agent name as a substring in
\* either direction, ignoring case, and is 'UK' when no row matches.
ClaimC4 ==
  (Done /\ TeamsPresent(LookupInput)) => \A j \in 1..Len(processed_data.rows) :
            processed_data.rows[j].Team
              = ClaimedTeam(processed_data.rows[j].Agent, LookupInput)

\* C5: every emitted record's Team is a non-empty string; a matching lookup row with
\* a missing Team gives 'UK'.
ClaimC5 ==
  Done => \A j \in 1..Len(processed_data.rows) :
            /\ processed_data.rows[j].Team.k = "str"
            /\ processed_data.rows[j].Team.s # <<>>

\* C6 as stated: Contacts_Processed, Target, Effective_Contacts and Net_Contacts of
\* every emitted record are >= 0.
ClaimC6 ==
  Done => \A j \in 1..Len(processed_data.rows) :
            /\ processed_data.rows[j].Contacts_Processed >= 0
            /\ processed_data.rows[j].Target >= 0
            /\ processed_data.rows[j].Effective_Contacts >= 0
            /\ processed_data.rows[j].Net_Contacts >= 0

CountFollows(value, w) ==
  /\ CountIs(value, w)
  /\ (value >= 0 <=> w.h > -10)

\* C6 amended: the four counts of every emitted record are the integer parts
\* (truncation toward zero) of the winning candidate values, 0 when no candidate
\* qualifies; a count is >= 0 exactly when that value is above -1, negative otherwise.
ClaimC6Amended ==
  Done => \A j \in 1..Len(processed_data.rows) :
            LET r == processed_data.rows[j]
                i == Named(Input)[j]
            IN /\ OnePerNamedRow
               /\ CountFollows(r.Contacts_Processed,
                               Winner(Input, i, ContCols, "count", FALSE))
               /\ CountFollows(r.Target, Winner(Input, i, TargetCols, "count", FALSE))
               /\ CountFollows(r.Effective_Contacts,
                               Winner(Input, i, EffCols, "count", FALSE))
               /\ CountFollows(r.Net_Contacts, Winner(Input, i, NetCols, "count", FALSE))

\* C6 witness: a record whose contacts-processed cell -3.5 became -3.
WitnessC6 ==
  /\ Done
  /\ \E j \in 1..Len(processed_data.rows) :
       /\ processed_data.rows[j].Contacts_Processed = -3
       /\ FloatCell(-35) \in Range(Input.rows[Named(Input)[j]])

\* C7: whenever the export is produced it holds exactly the filtered records and
\* their Status column.
ClaimC7 ==
  out.export # None =>
    /\ out.export.rows = out.metrics_rows
    /\ "Status" \in Range(out.export.columns)

\* The total of the first n values of a tuple of integers
RECURSIVE Total(_, _)
Total(values, n) == IF n = 0 THEN 0 ELSE Total(values, n - 1) + values[n]

Deficits(rows) == [i \in 1..Len(rows) |-> rows[i].Deficit]
Targets(rows) == [i \in 1..Len(rows) |-> rows[i].Target]
Contacts(rows) == [i \in 1..Len(rows) |-> rows[i].Contacts_Processed]

E2EDone == Done /\ Input = E2ETable /\ out.metrics_rows = processed_data.rows

\* C8: create_summary_metrics reports the sum of the Deficit values (total Target
\* minus total Contacts_Processed) and 'Surplus' exactly when that sum is <= 0; the
\* three-row end-to-end input gives two records, A and B, Deficits -10 and 10, total 0,
\* 'Surplus'.
ClaimC8 ==
  /\ out.view = "dashboard" =>
       LET rows == out.metrics_rows
           total == Total(Deficits(rows), Len(rows))
       IN /\ out.metrics.total_deficit = total
          /\ total = Total(Targets(rows), Len(rows)) - Total(Contacts(rows), Len(rows))
          /\ (out.metrics.status = "Surplus" <=> total <= 0)
          /\ (out.metrics.status = "Deficit" <=> total > 0)
  /\ (Done /\ Input = E2ETable) =>
       /\ Len(processed_data.rows) = 2
       /\ processed_data.rows[1].Agent = <<"A">>
       /\ processed_data.rows[2].Agent = <<"B">>
       /\ processed_data.rows[1].Deficit = -10
       /\ processed_data.rows[2].Deficit = 10
  /\ E2EDone => out.metrics.total_deficit = 0 /\ out.metrics.status = "Surplus"

\* C8 witness: the end-to-end input has been processed and its metrics are shown.
WitnessC8 == E2EDone /\ out.view = "dashboard" /\ out.metrics.agents = 2

\* No two header names of t are equal once trimmed
DistinctLabels(t) ==
  \A p, q \in 1..Len(t.header) : StripCol(t.header[p]) = StripCol(t.header[q]) => p = q

\* C9: a missing, non-numeric or non-finite candidate cell only makes its field fall
\* through to the next candidate or the default; the pass raises nothing and emits a
\* record for every row that has an agent name.
ClaimC9 ==
  (Done /\ DistinctLabels(Input)) =>
    /\ ~out.error
    /\ OnePerNamedRow
    /\ \A j \in 1..Len(processed_data.rows) : FieldsFollowRule(j, TRUE)

\* C10: the aggregation runs only on a non-empty filtered set; with processed_data
\* absent or empty the welcome state is shown and nothing is aggregated.
ClaimC10 ==
  /\ out.metrics # None => Len(out.metrics_rows) > 0
  /\ (processed_data = None \/ processed_data.rows = <<>>) =>
       (out.view = "welcome" /\ out.metrics = None)

====
